---- MODULE Spec2Model ----
(***************************************************************************)
(* The power_shift sigma scheduler of ComfyUI_PowerShiftScheduler          *)
(* (src/__init__.py): the generator power_shift_scheduler, the node        *)
(* adapter PowerShiftSchedulerNode.get_sigmas and the import-time          *)
(* registration into the host's SCHEDULER_HANDLERS / SCHEDULER_NAMES.      *)
(*                                                                         *)
(* Numbers.  The generator computes in IEEE doubles.  The model computes   *)
(* the same pipeline in exact rationals <<numerator, denominator>>, for    *)
(* integer values of power and midpoint_shift.  The exact value and the    *)
(* double differ by a relative error of about 1e-15, which moves the       *)
(* result of numpy.rint only where the exact product is a half-integer:    *)
(* there the double is the exact half (and rint rounds half to even) when  *)
(* the step count is a power of two, since then every intermediate value   *)
(* is a dyadic rational computed without rounding, and otherwise it lies   *)
(* on one side of the half or the other, as the rounding of                *)
(* i * (1.0 / steps) decides (steps=6, i=5, total_timesteps=3 gives        *)
(* 0.5000000000000002 and index 1).  The side is fixed for a given input   *)
(* but not computable in exact arithmetic, so it is an unknown of the      *)
(* environment: fpUp is the set of positions whose half is rounded up.     *)
(* A sigma value v of the table stands for itself; 0 is the float 0.0.     *)
(***************************************************************************)
EXTENDS Integers, Sequences, FiniteSets

VARIABLES
    sigmas,               \* model_sampling.sigmas, index t at position t + 1
    steps,                \* the steps argument
    power,                \* the power argument
    midpoint_shift,       \* the midpoint_shift argument
    fpUp,                 \* positions whose exact half-integer product the doubles round up
    returned,             \* the discard_penultimate values the handler was called with
    out,                  \* out[d]: what power_shift_scheduler returned for discard_penultimate = d
    t_ints,               \* the t_int values the loop of the last call walked
    discard_penultimate,  \* get_sigmas argument
    denoise,              \* get_sigmas argument, in hundredths
    pcNode,               \* "idle", "returned" or "raised" (get_sigmas ended in an exception)
    generated,            \* what power_shift_scheduler returned inside get_sigmas
    nodeOut,              \* the SIGMAS get_sigmas returned
    SCHEDULER_HANDLERS,   \* the host's name -> handler table
    SCHEDULER_NAMES,      \* the host's list of scheduler names
    imports               \* how many times the module body has run

vars == <<sigmas, steps, power, midpoint_shift, fpUp, returned, out, t_ints,
          discard_penultimate, denoise, pcNode, generated, nodeOut,
          SCHEDULER_HANDLERS, SCHEDULER_NAMES, imports>>

schedVars == <<returned, out, t_ints>>
nodeVars  == <<discard_penultimate, denoise, pcNode, generated, nodeOut>>
regVars   == <<SCHEDULER_HANDLERS, SCHEDULER_NAMES, imports>>
inputVars == <<sigmas, steps, power, midpoint_shift, fpUp>>

(***************************************************************************)
(* Bounds of the model.                                                    *)
(***************************************************************************)
MaxSteps == 6          \* steps ranges over 1..MaxSteps
MaxTimesteps == 4      \* the sigma table has 1..MaxTimesteps+1 entries
MaxPower == 2          \* power ranges over the integers 0..MaxPower
MaxShift == 2          \* midpoint_shift ranges over the integers 0..MaxShift
MaxImports == 3        \* the module body runs at most this many times
MaxNames == 3          \* the host's name list starts with at most this many entries

SigmaValues == {1, 2}  \* the values a table entry takes (so that two indices can share one)
IntCap == 2^28         \* the exact arithmetic stays below this (TLC's integers are 32 bit)

(***************************************************************************)
(* Program constants.                                                      *)
(***************************************************************************)
MinNodeSteps == 3      \* INPUT_TYPES: "steps" min
DenoiseScale == 100    \* INPUT_TYPES: "denoise" step 0.01; denoise is held in hundredths
DenoiseValues == {0, 50, 75, 100}   \* the denoise inputs drawn; k/100 with int(steps/(k/100)) exact in doubles

scheduler_name == "power_shift"
HostNames == {"power_shift", "normal", "karras"}
Handlers == {"power_shift_scheduler", "host_handler"}

Min(a, b) == IF a < b THEN a ELSE b
Max(a, b) == IF a > b THEN a ELSE b

(***************************************************************************)
(* b ** e of numpy for a non-negative integer exponent: 0 ** 0 is 1.       *)
(***************************************************************************)
(* mutant: 0 ** e taken as 0 for every e, 0 ** 0 included *)
RECURSIVE Pow_zeroBase(_, _)
Pow_zeroBase(b, e) ==
    IF b = 0 THEN 0 ELSE IF e = 0 THEN 1 ELSE b * Pow_zeroBase(b, e - 1)

RECURSIVE Pow(_, _)
Pow(b, e) == IF e = 0 THEN 1 ELSE b * Pow(b, e - 1)

(* b ** e, saturating above IntCap: used only to keep inputs representable *)
RECURSIVE PowCap(_, _)
PowCap(b, e) ==
    IF e = 0 THEN 1
    ELSE LET r == PowCap(b, e - 1)
         IN  IF r > IntCap \div b THEN IntCap + 1 ELSE r * b

Fits(s, p, ms, T) == PowCap(s, ms * p * p) <= IntCap \div (2 * (T + 1))

RatPow(q, e) == <<Pow(q[1], e), Pow(q[2], e)>>

(* numpy.linspace(0, 1, s, endpoint=False)[i] = i * (1 / s) *)
linspace(s, i) == <<i, s>>

(* x = x ** midpoint_shift *)
x_shifted(s, ms, i) == RatPow(linspace(s, i), ms)

(* mutant: (x ** power) ** power, the complement forgotten *)
ts_normalized_noComplement(s, p, ms, i) ==
    RatPow(RatPow(x_shifted(s, ms, i), p), p)

(* ts_normalized = (1 - x ** power) ** power *)
ts_normalized(s, p, ms, i) ==
    LET xp == RatPow(x_shifted(s, ms, i), p)
    IN  RatPow(<<xp[2] - xp[1], xp[2]>>, p)

(* the exact product ts_normalized * total_timesteps is a half-integer *)
IsHalf(q, T) == 2 * ((q[1] * T) % q[2]) = q[2]

IsPowerOfTwo(s) == \E k \in 0..30 : s = 2^k

(* numpy.rint(q * T): round to nearest; an exact half goes to the even     *)
(* neighbour when the double is exact, else to the side `up` names         *)
rint(q, T, exact, up) ==
    LET a  == q[1] * T
        fl == a \div q[2]
        r2 == 2 * (a % q[2])
    IN  IF r2 < q[2] THEN fl
        ELSE IF r2 > q[2] THEN fl + 1
        ELSE IF exact THEN (IF fl % 2 = 0 THEN fl ELSE fl + 1)
        ELSE IF up THEN fl + 1 ELSE fl

(* ts = numpy.rint(ts_normalized * total_timesteps), as a sequence 1..s *)
ts(s, p, ms, T, ups) ==
    [k \in 1..s |-> rint(ts_normalized(s, p, ms, k - 1), T, IsPowerOfTwo(s), (k - 1) \in ups)]

(* positions of a non-dyadic step count whose exact product is a half *)
TiePositions(s, p, ms, T) ==
    {i \in 0..(s - 1) : ~IsPowerOfTwo(s) /\ IsHalf(ts_normalized(s, p, ms, i), T)}

(* t_int = min(int(t), total_timesteps) for each t of ts *)
TInts(tseq, T) == [k \in 1..Len(tseq) |-> Min(tseq[k], T)]

(* mutant: no deduplication, every position appends *)
RECURSIVE Loop_noDedup(_, _, _, _, _)
Loop_noDedup(tbl, tis, k, last_t, sigs) ==
    IF k > Len(tis) THEN sigs
    ELSE Loop_noDedup(tbl, tis, k + 1, tis[k], Append(sigs, tbl[tis[k] + 1]))

(* mutant: deduplication by sigma value instead of by index *)
RECURSIVE Loop_byValue(_, _, _, _, _)
Loop_byValue(tbl, tis, k, last_t, sigs) ==
    IF k > Len(tis) THEN sigs
    ELSE LET v == tbl[tis[k] + 1]
         IN  Loop_byValue(tbl, tis, k + 1, tis[k],
                          IF sigs = <<>> \/ v # sigs[Len(sigs)] THEN Append(sigs, v) ELSE sigs)

(* the loop over ts: append sigmas[t_int] when t_int differs from last_t *)
RECURSIVE Loop(_, _, _, _, _)
Loop(tbl, tis, k, last_t, sigs) ==
    IF k > Len(tis) THEN sigs
    ELSE LET t_int == tis[k]
         IN  Loop(tbl, tis, k + 1, t_int,
                  IF t_int # last_t THEN Append(sigs, tbl[t_int + 1]) ELSE sigs)

(* mutant: sigmas[:-1], the trailing zero dropped instead of the entry before it *)
DropPenultimate_dropsLast(s) == SubSeq(s, 1, Len(s) - 1)

(* mutant: sigmas[:-2], the trailing zero not put back *)
DropPenultimate_noTail(s) == SubSeq(s, 1, Len(s) - 2)

(* mutant: torch.cat((sigmas[:-3], sigmas[-2:])), one position too early *)
DropPenultimate_tooEarly(s) ==
    SubSeq(s, 1, Len(s) - 3) \o SubSeq(s, Max(Len(s) - 1, 1), Len(s))

(* torch.cat((sigmas[:-2], sigmas[-1:])) *)
DropPenultimate(s) ==
    SubSeq(s, 1, Len(s) - 2) \o SubSeq(s, Max(Len(s), 1), Len(s))

power_shift_scheduler(tbl, s, p, ms, discard, ups) ==
    LET total_timesteps == Len(tbl) - 1
        tis  == TInts(ts(s, p, ms, total_timesteps, ups), total_timesteps)
        sigs == Append(Loop(tbl, tis, 1, -1, <<>>), 0)
    IN  IF discard THEN DropPenultimate(sigs) ELSE sigs

SigmaTables == UNION {[1..n -> SigmaValues] : n \in 1..(MaxTimesteps + 1)}

InitInputs ==
    /\ sigmas \in SigmaTables
    /\ steps \in 1..MaxSteps
    /\ power \in 0..MaxPower
    /\ midpoint_shift \in 0..MaxShift

InitSched == returned = {} /\ out = [d \in BOOLEAN |-> <<>>] /\ t_ints = <<>>
InitNode  == discard_penultimate = FALSE /\ denoise = DenoiseScale /\ pcNode = "idle"
             /\ generated = <<>> /\ nodeOut = <<>>
InitReg   == SCHEDULER_HANDLERS = <<>> /\ SCHEDULER_NAMES = <<>> /\ imports = 0

(***************************************************************************)
(* The host calls the registered handler.                                   *)
(***************************************************************************)
Init ==
    /\ InitInputs
    /\ Fits(steps, power, midpoint_shift, Len(sigmas) - 1)
    /\ fpUp \in SUBSET TiePositions(steps, power, midpoint_shift, Len(sigmas) - 1)
    /\ InitSched /\ InitNode /\ InitReg

Call(d) ==
    /\ d \notin returned
    /\ returned' = returned \cup {d}
    /\ out' = [out EXCEPT ![d] = power_shift_scheduler(sigmas, steps, power, midpoint_shift, d, fpUp)]
    /\ t_ints' = TInts(ts(steps, power, midpoint_shift, Len(sigmas) - 1, fpUp), Len(sigmas) - 1)
    /\ UNCHANGED <<inputVars, nodeVars, regVars>>

Next == \E d \in BOOLEAN : Call(d)

Spec == Init /\ [][Next]_vars

(***************************************************************************)
(* The node: PowerShiftSchedulerNode.get_sigmas.                           *)
(***************************************************************************)
(* int(steps / denoise) for denoise < 1.0, steps otherwise; denoise # 0 *)
total_steps(s, dn) ==
    IF dn < DenoiseScale THEN (s * DenoiseScale) \div dn ELSE s

(* mutant: sigmas[:n], the first entries instead of the last *)
LastEntries_first(s, n) == SubSeq(s, 1, Min(n, Len(s)))

(* sigmas[-n:] *)
LastEntries(s, n) == SubSeq(s, Max(Len(s) - n, 0) + 1, Len(s))

InitNodeCall ==
    /\ InitInputs
    /\ steps >= MinNodeSteps
    /\ discard_penultimate \in BOOLEAN
    /\ denoise \in DenoiseValues
    /\ IF denoise = 0
       THEN fpUp = {}
       ELSE /\ Fits(total_steps(steps, denoise), power, midpoint_shift, Len(sigmas) - 1)
            /\ fpUp \in SUBSET TiePositions(total_steps(steps, denoise), power,
                                            midpoint_shift, Len(sigmas) - 1)
    /\ pcNode = "idle" /\ generated = <<>> /\ nodeOut = <<>>
    /\ InitSched /\ InitReg

get_sigmas ==
    /\ pcNode = "idle"
    /\ IF denoise < DenoiseScale /\ denoise = 0
       THEN \* steps / 0.0 raises ZeroDivisionError
            /\ pcNode' = "raised"
            /\ UNCHANGED <<generated, nodeOut, t_ints>>
       ELSE LET n == total_steps(steps, denoise)
                g == power_shift_scheduler(sigmas, n, power, midpoint_shift,
                                           discard_penultimate, fpUp)
            IN  /\ generated' = g
                /\ nodeOut' = LastEntries(g, steps + 1)
                /\ t_ints' = TInts(ts(n, power, midpoint_shift, Len(sigmas) - 1, fpUp),
                                   Len(sigmas) - 1)
                /\ pcNode' = "returned"
    /\ UNCHANGED <<inputVars, discard_penultimate, denoise, returned, out, regVars>>

NextNode == get_sigmas

SpecNode == InitNodeCall /\ [][NextNode]_vars

(***************************************************************************)
(* Registration: the module body, lines 55-60, run at every import.        *)
(***************************************************************************)
RECURSIVE SeqsUpTo(_, _)
SeqsUpTo(S, n) ==
    IF n = 0 THEN {<<>>}
    ELSE LET shorter == SeqsUpTo(S, n - 1)
         IN  shorter \cup {Append(q, e) : q \in shorter, e \in S}

Contains(names, name) == \E k \in 1..Len(names) : names[k] = name

InitHost ==
    /\ SCHEDULER_HANDLERS \in UNION {[K -> Handlers] : K \in SUBSET HostNames}
    /\ SCHEDULER_NAMES \in SeqsUpTo(HostNames, MaxNames)
    /\ imports = 0
    /\ sigmas = <<1>> /\ steps = 1 /\ power = 0 /\ midpoint_shift = 0 /\ fpUp = {}
    /\ InitSched /\ InitNode

(* SCHEDULER_HANDLERS[name] = handler *)
SetItem(table, name, handler) ==
    [k \in DOMAIN table \cup {name} |-> IF k = name THEN handler ELSE table[k]]

(* mutant: the name appended without looking for it in SCHEDULER_NAMES *)
Register_alwaysAppend ==
    /\ imports < MaxImports
    /\ imports' = imports + 1
    /\ IF scheduler_name \notin DOMAIN SCHEDULER_HANDLERS
       THEN /\ SCHEDULER_HANDLERS' = SetItem(SCHEDULER_HANDLERS, scheduler_name,
                                             "power_shift_scheduler")
            /\ SCHEDULER_NAMES' = Append(SCHEDULER_NAMES, scheduler_name)
       ELSE UNCHANGED <<SCHEDULER_HANDLERS, SCHEDULER_NAMES>>
    /\ UNCHANGED <<inputVars, schedVars, nodeVars>>

Register ==
    /\ imports < MaxImports
    /\ imports' = imports + 1
    /\ IF scheduler_name \notin DOMAIN SCHEDULER_HANDLERS
       THEN /\ SCHEDULER_HANDLERS' = SetItem(SCHEDULER_HANDLERS, scheduler_name,
                                             "power_shift_scheduler")
            /\ SCHEDULER_NAMES' = IF ~Contains(SCHEDULER_NAMES, scheduler_name)
                                  THEN Append(SCHEDULER_NAMES, scheduler_name)
                                  ELSE SCHEDULER_NAMES
       ELSE UNCHANGED <<SCHEDULER_HANDLERS, SCHEDULER_NAMES>>
    /\ UNCHANGED <<inputVars, schedVars, nodeVars>>

NextReg == Register

SpecReg == InitHost /\ [][NextReg]_vars

(***************************************************************************)
(* Properties.                                                             *)
(***************************************************************************)
total_timesteps == Len(sigmas) - 1
Called == returned # {}

(* C1: whatever discard_penultimate is, the sequence the generator returns *)
(* is not empty and its last element is 0.0.                               *)
C1_LastIsZero ==
    \A d \in returned : Len(out[d]) >= 1 /\ out[d][Len(out[d])] = 0

C1_Witness ==
    /\ returned = BOOLEAN
    /\ Len(out[TRUE]) >= 2
    /\ out[TRUE][Len(out[TRUE])] = 0
    /\ out[FALSE][Len(out[FALSE])] = 0

(* C2 as stated: for either value of discard_penultimate the returned      *)
(* sequence has at least 2 and at most steps + 1 elements.                 *)
C2_Original ==
    \A d \in returned : Len(out[d]) >= 2 /\ Len(out[d]) <= steps + 1

(* C2 amended: without discard_penultimate the length is in 2..steps+1;    *)
(* with it the length is one less, in 1..steps.                            *)
C2_Amended ==
    /\ FALSE \in returned => Len(out[FALSE]) >= 2 /\ Len(out[FALSE]) <= steps + 1
    /\ TRUE \in returned => Len(out[TRUE]) >= 1 /\ Len(out[TRUE]) <= steps

C2_Witness ==
    /\ returned = BOOLEAN
    /\ steps >= 2
    /\ Len(out[TRUE]) = 1
    /\ Len(out[FALSE]) = 2

(* s without its element at 1-based position pos *)
RemoveAt(s, pos) == [j \in 1..(Len(s) - 1) |-> IF j < pos THEN s[j] ELSE s[j + 1]]

(* C3: for the same table, steps, power and midpoint_shift, the output     *)
(* with discard_penultimate is the output without it less the element      *)
(* just before the trailing 0.0, the others kept in order.                 *)
C3_DiscardRemovesPenultimate ==
    returned = BOOLEAN => out[TRUE] = RemoveAt(out[FALSE], Len(out[FALSE]) - 1)

C3_Witness ==
    /\ returned = BOOLEAN
    /\ Len(out[FALSE]) >= 4
    /\ Len(out[TRUE]) = Len(out[FALSE]) - 1
    /\ out[FALSE][Len(out[FALSE]) - 1] # out[FALSE][Len(out[FALSE]) - 2]

(* C4 as stated: with a one-entry table (total_timesteps = 0) the output   *)
(* is [sigma_table[0], 0.0] for any steps and any other parameter.         *)
C4_Original ==
    total_timesteps = 0 => \A d \in returned : out[d] = <<sigmas[1], 0>>

(* C4 amended: with a one-entry table the output is [sigma_table[0], 0.0]  *)
(* when discard_penultimate is false and [0.0] when it is true.            *)
C4_Amended ==
    total_timesteps = 0 =>
        /\ FALSE \in returned => out[FALSE] = <<sigmas[1], 0>>
        /\ TRUE \in returned => out[TRUE] = <<0>>

C4_Witness ==
    /\ total_timesteps = 0
    /\ steps >= 3
    /\ power >= 1
    /\ returned = BOOLEAN
    /\ out[FALSE] = <<sigmas[1], 0>>

(* C8: with power >= 1 and midpoint_shift >= 1 the table indices t_int of  *)
(* positions 0..steps-1, before deduplication, never increase.             *)
C8_IndicesNonIncreasing ==
    (Called /\ power >= 1 /\ midpoint_shift >= 1) =>
        \A i, j \in 1..Len(t_ints) : i < j => t_ints[i] >= t_ints[j]

C8_Witness ==
    /\ Called /\ power >= 1 /\ midpoint_shift >= 1
    /\ Len(t_ints) >= 4
    /\ t_ints[1] > t_ints[2] /\ t_ints[2] > t_ints[3] /\ t_ints[3] = t_ints[4]

(* the positions whose index differs from the index of the position before *)
Kept == {k \in 1..Len(t_ints) : k = 1 \/ t_ints[k] # t_ints[k - 1]}
Rank(k) == Cardinality({m \in Kept : m <= k})

(* C9: an entry is appended exactly for the first position and for every   *)
(* position whose index differs from the one before it, and it is the      *)
(* table's sigma at that index: equal indices in a row give one entry,     *)
(* different indices give two even when their sigmas are equal.            *)
C9_DedupByIndex ==
    FALSE \in returned =>
        /\ Len(out[FALSE]) = Cardinality(Kept) + 1
        /\ \A k \in Kept : out[FALSE][Rank(k)] = sigmas[t_ints[k] + 1]

C9_Witness ==
    /\ FALSE \in returned
    /\ \E k \in 2..Len(t_ints) :
          /\ t_ints[k] # t_ints[k - 1]
          /\ sigmas[t_ints[k] + 1] = sigmas[t_ints[k - 1] + 1]
          /\ out[FALSE][Rank(k)] = out[FALSE][Rank(k) - 1]
    /\ \E k \in 2..Len(t_ints) : t_ints[k] = t_ints[k - 1]

(* the position's x after the midpoint shift is not zero *)
NonZeroX(i) == x_shifted(steps, midpoint_shift, i)[1] # 0
TNorm(i) == ts_normalized(steps, power, midpoint_shift, i)

(* C10 as stated: with power = 0, t_norm is 0 and the index is 0 at every  *)
(* position whose x is not zero.                                           *)
C10_Original ==
    (Called /\ power = 0) =>
        \A i \in 0..(steps - 1) :
            NonZeroX(i) => TNorm(i)[1] = 0 /\ t_ints[i + 1] = 0

(* C10 amended: with power = 0, t_norm is 1 at every position, x = 0       *)
(* included (x^0 = 1 and (1 - 1)^0 = 0^0 = 1), and every position selects  *)
(* the table index total_timesteps.                                        *)
C10_Amended ==
    (Called /\ power = 0) =>
        \A i \in 0..(steps - 1) :
            TNorm(i)[1] = TNorm(i)[2] /\ t_ints[i + 1] = total_timesteps

C10_Witness ==
    /\ Called /\ power = 0
    /\ midpoint_shift >= 1
    /\ steps >= 2
    /\ total_timesteps >= 2
    /\ t_ints[1] = total_timesteps /\ t_ints[2] = total_timesteps

(* C6: when get_sigmas returns, the generator ran at steps positions for   *)
(* denoise = 1 and at the integer part of steps / denoise for denoise < 1, *)
(* and the result is the last steps + 1 entries of what the generator      *)
(* returned, in order, or all of it when it has no more than that.         *)
C6_Truncation ==
    pcNode = "returned" =>
        /\ IF denoise = DenoiseScale
           THEN Len(t_ints) = steps
           ELSE /\ Len(t_ints) * denoise <= steps * DenoiseScale
                /\ (Len(t_ints) + 1) * denoise > steps * DenoiseScale
        /\ IF Len(generated) <= steps + 1
           THEN nodeOut = generated
           ELSE /\ Len(nodeOut) = steps + 1
                /\ \A j \in 1..(steps + 1) :
                      nodeOut[j] = generated[Len(generated) - (steps + 1) + j]
        /\ nodeOut[Len(nodeOut)] = 0

C6_Witness ==
    /\ pcNode = "returned"
    /\ denoise < DenoiseScale
    /\ Len(generated) > steps + 1
    /\ Len(nodeOut) = steps + 1
    /\ nodeOut[1] # generated[1]

(* C7: get_sigmas never ends in an error for inputs in the declared        *)
(* ranges, denoise = 0 included.                                           *)
C7_NeverRaises == pcNode # "raised"

Count(names, name) == Cardinality({k \in 1..Len(names) : names[k] = name})
Registered ==
    /\ scheduler_name \in DOMAIN SCHEDULER_HANDLERS
    /\ Count(SCHEDULER_NAMES, scheduler_name) = 1

(* C5 as stated: from any state of the host tables, once the registration  *)
(* block has run twice the handler table has the key and the name list     *)
(* has the name exactly once.                                              *)
C5_Original == imports >= 2 => Registered

(* the name list has the name at most once, and has it when the handler    *)
(* table has the key                                                       *)
HostListsHandlers ==
    /\ Count(SCHEDULER_NAMES, scheduler_name) <= 1
    /\ scheduler_name \in DOMAIN SCHEDULER_HANDLERS =>
           Count(SCHEDULER_NAMES, scheduler_name) = 1

(* C5 amended: from a state of the host tables whose name list has the     *)
(* name at most once, and has it when the handler table has the key, once  *)
(* the registration block has run twice the handler table has the key and  *)
(* the name list has the name exactly once.                                *)
C5_Amended == HostListsHandlers => [](imports >= 2 => Registered)

C5_Witness ==
    /\ imports = 2
    /\ Registered
    /\ SCHEDULER_HANDLERS[scheduler_name] = "power_shift_scheduler"
    /\ SCHEDULER_NAMES[Len(SCHEDULER_NAMES)] = scheduler_name
    /\ Len(SCHEDULER_NAMES) >= 2

====
